---- MODULE Spec2Model ----
(***************************************************************************)
(* A model of Totoro/scheduler/plugger.py: the cart status classifier,    *)
(* the cart prioritiser, the three-phase cart allocation of               *)
(* Plugger.allocateCarts, the cart order of Plugger.addCartOrder and the   *)
(* output of Plugger.getASOutput.                                          *)
(*                                                                         *)
(* Python values are modelled as follows: None is 0, a plate is its        *)
(* plate_id, a completion is counted in tenths (10 is a completion of 1),  *)
(* an OrderedDict is the sequence of its keys and a function from keys to  *)
(* values, a raised exception is pc = "failed" with the exception's name.  *)
(***************************************************************************)
EXTENDS Integers, Sequences, FiniteSets, TLC

(***************************************************************************)
(* Bounds of the model.                                                    *)
(***************************************************************************)
\* number of MaNGA plates known to the data base
NPlates == 3
\* largest number of active pluggings in the snapshot
MaxActive == 2
\* largest number of cart statuses given to prioritiseCarts on its own
MaxStatuses == 5

(***************************************************************************)
(* Configuration (config['mangaCarts'], config['apogeeCarts'],             *)
(* config['plugger']['forcePlugPriority']).                                *)
(***************************************************************************)
None == 0
mangaCarts == <<1, 2, 3>>
apogeeCarts == <<4>>
forcePlugPriority == 10
noPlugPriority == 1

Range(s) == {s[i] : i \in 1..Len(s)}
Contains(s, x) == \E i \in 1..Len(s) : s[i] = x
AllCarts == Range(mangaCarts) \cup Range(apogeeCarts)

RECURSIVE Reverse(_)
Reverse(s) == IF s = <<>> THEN <<>> ELSE Append(Reverse(Tail(s)), Head(s))

\* np.argsort(keys), 1-based: the indices of keys in ascending order of key.
\* numpy sorts arrays of fewer than 17 elements by insertion, so equal keys
\* keep their order.
RECURSIVE InsertIndex(_, _, _)
InsertIndex(order, n, keys) ==
    IF order = <<>> THEN <<n>>
    ELSE IF keys[n] < keys[Head(order)] THEN <<n>> \o order
    ELSE <<Head(order)>> \o InsertIndex(Tail(order), n, keys)

RECURSIVE argsortUpTo(_, _)
argsortUpTo(keys, n) ==
    IF n = 0 THEN <<>> ELSE InsertIndex(argsortUpTo(keys, n - 1), n, keys)

argsort(keys) == argsortUpTo(keys, Len(keys))

\* [s[ii] for ii in np.argsort(keys)]
OrderedBy(s, keys) == [i \in 1..Len(s) |-> s[argsort(keys)[i]]]

(***************************************************************************)
(* The state.                                                              *)
(***************************************************************************)
VARIABLES
    offlineCarts,      \* config['offlineCarts'], a list of cart numbers
    activePluggings,   \* the ActivePlugging rows, ordered by pk
    platedb,           \* the plates: completion, priority, pluggings, sets
    startDate,         \* TRUE when the Plugger was built from two dates
    pc,                \* position of the run
    error,             \* the exception that ended the run: its name, the
                       \* step that raised it and the plate it was raised for
    warnings,          \* the warnings emitted so far, in order
    platesToSchedule,  \* self._platesToSchedule
    isReplug,          \* the plates whose isReplug attribute is set and true
    scheduled,         \* self.timeline.scheduled
    nNewExposures,     \* self._nNewExposures, plate_id -> count (0: no key)
    hasNewExposures,   \* the keys of self._nNewExposures
    plates,            \* the local list plates of allocateCarts
    cartKeys,          \* the keys of self.carts other than 'cart_order'
    carts,             \* self.carts[key] for the keys in cartKeys
    cart_order,        \* self.carts['cart_order']: [set |-> .., order |-> ..]
    cartStatus,        \* the OrderedDict cartStatus, as its list of values
    allocatedPlates,   \* the local list allocatedPlates
    sortedCarts,       \* the local list sortedCarts
    cartPlateMessage,  \* the dict cartPlateMessage: cart -> <<plate, message>>
    nUnallocated,      \* the count of the 'have not been allocated' warning
    orderCalls,        \* how many times addCartOrder has been called
    statuses           \* input and output of prioritiseCarts on its own

vars == <<offlineCarts, activePluggings, platedb, startDate, pc, error,
          warnings, platesToSchedule, isReplug, scheduled, nNewExposures,
          hasNewExposures, plates, cartKeys, carts, cart_order, cartStatus,
          allocatedPlates, sortedCarts, cartPlateMessage, nUnallocated,
          orderCalls, statuses>>

MaNGAPlates == 1..NPlates
\* a plate of another survey; it is never a candidate
ForeignPlate == NPlates + 1
AllPlates == 1..(NPlates + 1)

(***************************************************************************)
(* The Plate class (Totoro.dbclasses.plate), as far as plugger.py uses it. *)
(***************************************************************************)
isMaNGAPlate(plate) == plate \in MaNGAPlates

getPlateCompletion(plate) == platedb[plate].completion

\* getPlateCompletion(includeIncompleteSets=True)
getPlateCompletionInc(plate) ==
    platedb[plate].completion + (IF platedb[plate].incompleteSets THEN 1 ELSE 0)

hasIncompleteSets(plate) == platedb[plate].incompleteSets

isComplete(plate) == getPlateCompletion(plate) >= 10

isPlugged(plate) ==
    \E i \in 1..Len(activePluggings) : activePluggings[i].plate = plate

getActiveCartNumber(plate) ==
    LET i == CHOOSE i \in 1..Len(activePluggings) :
                 /\ activePluggings[i].plate = plate
                 /\ \A j \in 1..(i - 1) : activePluggings[j].plate # plate
    IN  activePluggings[i].cart

(***************************************************************************)
(* getCartStatus: (cart_number, plate, status_number, status_code,         *)
(* completion).  The TotoroError it raises is HasSeveralActivePluggings.   *)
(***************************************************************************)
cartActivePluggings(aPs, cartNumber) ==
    SelectSeq(aPs, LAMBDA aP : aP.cart = cartNumber)

HasSeveralActivePluggings(aPs, cartNumber) ==
    Len(cartActivePluggings(aPs, cartNumber)) > 1

getCartStatus(aPs, cartNumber) ==
    IF Len(cartActivePluggings(aPs, cartNumber)) = 0
    THEN <<cartNumber, None, 0, "empty", 0>>
    ELSE LET plate == cartActivePluggings(aPs, cartNumber)[1].plate IN
         IF ~isMaNGAPlate(plate)
         THEN <<cartNumber, plate, 1, "noMaNGAplate", 0>>
         ELSE IF isComplete(plate)
         THEN <<cartNumber, plate, 2, "MaNGA_complete", 10>>
         ELSE IF getPlateCompletion(plate) = 0
         THEN <<cartNumber, plate, 3, "MaNGA_noStarted", 0>>
         ELSE <<cartNumber, plate, 4, "MaNGA_started",
                getPlateCompletion(plate)>>

\* np.argmax(a), 1-based: the first index of the largest element
argmax(a) ==
    CHOOSE i \in 1..Len(a) :
        /\ \A j \in 1..Len(a) : a[j] <= a[i]
        /\ \A j \in 1..(i - 1) : a[j] < a[i]

getCartForReplug(plate) ==
    LET pluggings == platedb[plate].pluggings
        scanMJDs == [i \in 1..Len(pluggings) |-> pluggings[i].fscan_mjd]
    IN  IF Len(pluggings) = 0 THEN None
        ELSE pluggings[argmax(scanMJDs)].cart

(***************************************************************************)
(* prioritiseCarts                                                         *)
(***************************************************************************)
WithLabel(cartStatusList, label) ==
    SelectSeq(cartStatusList, LAMBDA cart : cart[4] = label)

\* sorted(started, key=lambda xx: xx[4]); Python's sort is stable
RECURSIVE InsertByCompletion(_, _)
InsertByCompletion(s, cart) ==
    IF s = <<>> THEN <<cart>>
    ELSE IF cart[5] < Head(s)[5] THEN <<cart>> \o s
    ELSE <<Head(s)>> \o InsertByCompletion(Tail(s), cart)

RECURSIVE sortedByCompletion(_)
sortedByCompletion(s) ==
    IF s = <<>> THEN <<>>
    ELSE InsertByCompletion(sortedByCompletion(SubSeq(s, 1, Len(s) - 1)),
                            s[Len(s)])

\* prioritiseCarts without the sort of the started carts
prioritiseCartsUnsorted(cartStatusList, aPs) ==
    WithLabel(cartStatusList, "empty")
    \o WithLabel(cartStatusList, "MaNGA_complete")
    \o WithLabel(cartStatusList, "unknown")
    \o WithLabel(cartStatusList, "noMaNGAplate")
    \o WithLabel(cartStatusList, "MaNGA_noStarted")
    \o WithLabel(cartStatusList, "MaNGA_started")

prioritiseCarts(cartStatusList, aPs) ==
    LET empty == WithLabel(cartStatusList, "empty")
        noMaNGA == WithLabel(cartStatusList, "noMaNGAplate")
        complete == WithLabel(cartStatusList, "MaNGA_complete")
        noStarted == WithLabel(cartStatusList, "MaNGA_noStarted")
        unknown == WithLabel(cartStatusList, "unknown")
        started == sortedByCompletion(WithLabel(cartStatusList, "MaNGA_started"))
    IN  empty \o complete \o unknown \o noMaNGA \o noStarted \o started

(***************************************************************************)
(* Dictionaries.                                                           *)
(***************************************************************************)
NoMessage == [plate |-> None, msg |-> "", completion |-> -1]
NoOrder == [set |-> FALSE, order |-> <<>>]
NoError == [name |-> "", at |-> "", plate |-> None]
NoStatuses == [input |-> <<>>, output |-> <<>>, done |-> FALSE]

replaceMsgs(statusCode) ==
    CASE statusCode = 0 -> "empty cart"
      [] statusCode = 1 -> "replacing non-MaNGA plate"
      [] statusCode = 2 -> "replacing complete MaNGA plate"
      [] statusCode = 3 -> "replacing non-started MaNGA plate"
      [] statusCode = 4 -> "replacing started MaNGA plate"
      [] statusCode = 10 -> "replacing plate with unknown status"

\* d[key] = value on an OrderedDict: a new key goes last
SetKey(keys, key) == IF Contains(keys, key) THEN keys ELSE Append(keys, key)

\* cartStatus.pop(cartNumber) and cartStatus[cartNumber] on the list of values
HasStatus(status, cartNumber) == \E i \in 1..Len(status) : status[i][1] = cartNumber
StatusOf(status, cartNumber) ==
    status[CHOOSE i \in 1..Len(status) : status[i][1] = cartNumber]
PopStatus(status, cartNumber) ==
    SelectSeq(status, LAMBDA cart : cart[1] # cartNumber)

(***************************************************************************)
(* The inputs of a run: the configuration, the data base and the           *)
(* timeline.                                                               *)
(***************************************************************************)
\* the sequences of at most n distinct elements of S
DistinctSeqs(S, n) ==
    UNION {{q \in [1..k -> S] : \A i, j \in 1..k : i # j => q[i] # q[j]}
           : k \in 0..n}

\* config['offlineCarts']: no cart, a MaNGA cart, an APOGEE cart, or both
OfflineChoices == {<<>>, <<2>>, <<4>>, <<2, 4>>}

\* The ActivePlugging rows, ordered by pk.  The data base keeps one row per
\* cart, with the cart number as its pk; a plate is in one cart at most.
ActivePluggingRows ==
    [pk : AllCarts, cart : AllCarts, plate : AllPlates]

Snapshots ==
    {q \in UNION {[1..k -> ActivePluggingRows] : k \in 0..MaxActive} :
        /\ \A i \in 1..Len(q) : q[i].pk = q[i].cart
        /\ \A i, j \in 1..Len(q) : i < j => /\ q[i].pk < q[j].pk
                                            /\ q[i].plate # q[j].plate}

PluggedIn(aPs, plate) == \E i \in 1..Len(aPs) : aPs[i].plate = plate
CartOf(aPs, plate) ==
    aPs[CHOOSE i \in 1..Len(aPs) : aPs[i].plate = plate].cart

\* The plates.  Plate 1 has not been started; plate 2 is half done, with or
\* without incomplete sets, or of force-plug priority; plate 3 is complete
\* or over-observed; and so on in turns.
PlateKinds(plate) ==
    CASE plate % 3 = 1 ->
            {[completion |-> 0, incompleteSets |-> FALSE, priority |-> 5]}
      [] plate % 3 = 2 ->
            {[completion |-> 5, incompleteSets |-> FALSE, priority |-> 5],
             [completion |-> 5, incompleteSets |-> TRUE, priority |-> 5],
             [completion |-> 5, incompleteSets |-> FALSE,
              priority |-> forcePlugPriority]}
      [] plate % 3 = 0 ->
            {[completion |-> 10, incompleteSets |-> FALSE, priority |-> 5],
             [completion |-> 12, incompleteSets |-> FALSE, priority |-> 5]}

\* The pluggings of a plate: a plugged plate has its active plugging; an
\* unplugged plate that is under way has none on record, or two of which the
\* first is the latest; another plate has none.
PluggingsOf(aPs, plate, kind) ==
    IF PluggedIn(aPs, plate)
    THEN {<<[cart |-> CartOf(aPs, plate), fscan_mjd |-> 2]>>}
    ELSE IF kind.completion = 0 \/ kind.completion >= 10 \/ ~isMaNGAPlate(plate)
    THEN {<<>>}
    ELSE {<<>>,
          <<[cart |-> 2, fscan_mjd |-> 2], [cart |-> 1, fscan_mjd |-> 1]>>}

\* plugger.py reads nothing but the survey of a plate that is not of MaNGA
PlateRecords(aPs, plate) ==
    UNION {[completion : {kind.completion},
            incompleteSets : {kind.incompleteSets},
            priority : {kind.priority},
            pluggings : PluggingsOf(aPs, plate, kind)]
           : kind \in IF isMaNGAPlate(plate) THEN PlateKinds(plate)
                      ELSE PlateKinds(1)}

\* the data bases of the plates 1..n
RECURSIVE PlateDBs(_, _)
PlateDBs(aPs, n) ==
    IF n = 0 THEN {<<>>}
    ELSE {Append(db, r) : db \in PlateDBs(aPs, n - 1),
                          r \in PlateRecords(aPs, n)}

(***************************************************************************)
(* Plugger.selectPlates: the plates to schedule and those it tags isReplug. *)
(***************************************************************************)
\* dbclasses.getAtAPO: the MaNGA plates at APO, by plate_id
platesAtAPO == [i \in 1..NPlates |-> i]

forcedOrPlugged ==
    SelectSeq(platesAtAPO,
              LAMBDA plate : \/ platedb[plate].priority = forcePlugPriority
                             \/ isPlugged(plate))

remainder ==
    SelectSeq(platesAtAPO, LAMBDA plate : ~Contains(forcedOrPlugged, plate))

Retained(plate) ==
    /\ ~(platedb[plate].priority <= noPlugPriority)
    /\ ~isComplete(plate)

selectPlates == forcedOrPlugged \o SelectSeq(remainder, Retained)

taggedReplug ==
    {plate \in Range(remainder) :
        Retained(plate) /\ getPlateCompletionInc(plate) > 0}

(***************************************************************************)
(* Plugger.__init__                                                        *)
(***************************************************************************)
\* self.carts of _initFromDates: the MaNGA carts that are not offline
onlineMangaCarts ==
    SelectSeq(mangaCarts, LAMBDA key : ~Contains(offlineCarts, key))

(***************************************************************************)
(* Plugger.addCartOrder.  keys and cs are self.carts without the key       *)
(* 'cart_order'; the buckets are lists of carts, the plate of a cart being *)
(* cs[cart].                                                               *)
(***************************************************************************)
forcePlugBucket(keys, cs) ==
    SelectSeq(keys, LAMBDA cart :
        /\ cs[cart] # None
        /\ platedb[cs[cart]].priority = forcePlugPriority)

completedBucket(keys, cs) ==
    SelectSeq(keys, LAMBDA cart :
        /\ cs[cart] # None
        /\ platedb[cs[cart]].priority # forcePlugPriority
        /\ getPlateCompletion(cs[cart]) > 10)

scheduledBucket(keys, cs) ==
    SelectSeq(keys, LAMBDA cart :
        /\ cs[cart] # None
        /\ platedb[cs[cart]].priority # forcePlugPriority
        /\ ~(getPlateCompletion(cs[cart]) > 10))

\* self._nNewExposures[plate_id] if plate_id in self._nNewExposures else 0
nExposuresOf(plate) ==
    IF plate \in hasNewExposures THEN nNewExposures[plate] ELSE 0

scheduledOrderedByExposures(keys, cs) ==
    LET bucket == scheduledBucket(keys, cs)
    IN  OrderedBy(bucket, [i \in 1..Len(bucket) |-> nExposuresOf(cs[bucket[i]])])

scheduledOrderedByCompletion(keys, cs) ==
    LET bucket == scheduledBucket(keys, cs)
        withSets == SelectSeq(bucket, LAMBDA cart : hasIncompleteSets(cs[cart]))
        withoutSets == SelectSeq(bucket, LAMBDA cart : ~hasIncompleteSets(cs[cart]))
    IN  OrderedBy(withoutSets,
                  [i \in 1..Len(withoutSets) |-> getPlateCompletion(cs[withoutSets[i]])])
        \o OrderedBy(withSets,
                  [i \in 1..Len(withSets) |-> getPlateCompletionInc(cs[withSets[i]])])

\* the offline carts that hold no plate of the order
offlineUnused(usedCarts) ==
    SelectSeq(offlineCarts, LAMBDA cart : ~Contains(usedCarts, cart))

\* the number of leading carts whose plate has no set that is 'Incomplete'
RECURSIVE firstIncomplete(_, _)
firstIncomplete(ordered, cs) ==
    IF ordered = <<>> \/ hasIncompleteSets(cs[Head(ordered)]) THEN 0
    ELSE 1 + firstIncomplete(Tail(ordered), cs)

\* scheduledOrdered.insert(ii, (cart, None)) for each unused offline cart
insertOffline(ordered, ii, offline) ==
    SubSeq(ordered, 1, ii) \o Reverse(offline) \o SubSeq(ordered, ii + 1, Len(ordered))

cartOrder(metric, keys, cs) ==
    LET completed == completedBucket(keys, cs)
        forcePlug == forcePlugBucket(keys, cs)
        scheduledOrdered == IF metric = "scheduled"
                            THEN scheduledOrderedByExposures(keys, cs)
                            ELSE scheduledOrderedByCompletion(keys, cs)
        usedCarts == completed \o scheduledOrdered \o forcePlug
        offline == offlineUnused(usedCarts)
    IN  IF metric = "scheduled"
        THEN completed \o offline \o scheduledOrdered \o forcePlug
        ELSE completed
             \o insertOffline(scheduledOrdered,
                              firstIncomplete(scheduledOrdered, cs), offline)
             \o forcePlug

(***************************************************************************)
(* Plugger.allocateCarts.  The loops work on the record st of the locals   *)
(* and of self.carts; st.error names the exception that ended the loop.    *)
(***************************************************************************)
\* truncate that keeps the last plates instead of the first
truncateLast(ps, nCarts) ==
    IF Len(ps) > nCarts THEN SubSeq(ps, Len(ps) - nCarts + 1, Len(ps)) ELSE ps

\* truncate that keeps every plate
truncateNone(ps, nCarts) == ps

\* plates[0:len(self.carts)] when there are more plates than carts
truncate(ps, nCarts) == IF Len(ps) > nCarts THEN SubSeq(ps, 1, nCarts) ELSE ps

\* self.carts[activePlugging.pk] = None for the rows whose pk is an offline cart
RECURSIVE addOfflinePks(_, _)
addOfflinePks(keys, aPs) ==
    IF aPs = <<>> THEN keys
    ELSE addOfflinePks(IF Contains(offlineCarts, Head(aPs).pk)
                       THEN SetKey(keys, Head(aPs).pk) ELSE keys,
                       Tail(aPs))

resetOfflinePks(cs, aPs) ==
    [cart \in AllCarts |->
        IF /\ Contains(offlineCarts, cart)
           /\ \E i \in 1..Len(aPs) : aPs[i].pk = cart
        THEN None ELSE cs[cart]]

\* the carts of self.carts whose value is None
undecidedCarts(keys, cs) == SelectSeq(keys, LAMBDA cartNumber : cs[cartNumber] = None)

Locals ==
    [cartKeys |-> cartKeys, carts |-> carts, message |-> cartPlateMessage,
     allocated |-> allocatedPlates, status |-> cartStatus,
     sorted |-> sortedCarts, error |-> NoError]

\* Phase1Step that leaves the cart among the undecided ones
Phase1StepNoPop(st, plate) ==
    IF st.error # NoError \/ ~isPlugged(plate) THEN st
    ELSE LET cartNumber == getActiveCartNumber(plate)
         IN  [st EXCEPT
                 !.cartKeys = SetKey(@, cartNumber),
                 !.carts[cartNumber] = plate,
                 !.message[cartNumber] =
                     [plate |-> plate, msg |-> "already plugged", completion |-> -1],
                 !.allocated = Append(@, plate)]

\* lines 443-449: a plate that is plugged stays in its cart
Phase1Step(st, plate) ==
    IF st.error # NoError \/ ~isPlugged(plate) THEN st
    ELSE LET cartNumber == getActiveCartNumber(plate)
             assigned == [st EXCEPT
                 !.cartKeys = SetKey(@, cartNumber),
                 !.carts[cartNumber] = plate,
                 !.message[cartNumber] =
                     [plate |-> plate, msg |-> "already plugged", completion |-> -1],
                 !.allocated = Append(@, plate)]
         IN  IF HasStatus(st.status, cartNumber)
             THEN [assigned EXCEPT !.status = PopStatus(@, cartNumber)]
             ELSE [assigned EXCEPT !.error =
                      [name |-> "KeyError", at |-> "phase1", plate |-> plate]]

RECURSIVE Phase1Loop(_, _)
Phase1Loop(st, ps) ==
    IF ps = <<>> THEN st ELSE Phase1Loop(Phase1Step(st, Head(ps)), Tail(ps))

\* Phase2Step that does not record the plate as allocated
Phase2StepNoMark(st, plate) ==
    IF st.error # NoError \/ Contains(st.allocated, plate) \/ plate \notin isReplug
    THEN st
    ELSE LET cartNumber == getCartForReplug(plate) IN
         IF ~HasStatus(st.status, cartNumber)
         THEN [st EXCEPT !.error =
                  [name |-> "KeyError", at |-> "phase2", plate |-> plate]]
         ELSE LET statusCode == StatusOf(st.status, cartNumber)[3] IN
              IF cartNumber # None /\ ~Contains(offlineCarts, cartNumber)
              THEN [st EXCEPT
                       !.carts[cartNumber] = plate,
                       !.message[cartNumber] =
                           [plate |-> plate, msg |-> replaceMsgs(statusCode),
                            completion |-> -1],
                       !.status = PopStatus(@, cartNumber)]
              ELSE st

\* lines 452-469: a replug goes to the cart of its last plugging
Phase2Step(st, plate) ==
    IF st.error # NoError \/ Contains(st.allocated, plate) \/ plate \notin isReplug
    THEN st
    ELSE LET cartNumber == getCartForReplug(plate) IN
         IF ~HasStatus(st.status, cartNumber)
         THEN [st EXCEPT !.error =
                  [name |-> "KeyError", at |-> "phase2", plate |-> plate]]
         ELSE LET statusCode == StatusOf(st.status, cartNumber)[3] IN
              IF cartNumber # None /\ ~Contains(offlineCarts, cartNumber)
              THEN [st EXCEPT
                       !.carts[cartNumber] = plate,
                       !.allocated = Append(@, plate),
                       !.message[cartNumber] =
                           [plate |-> plate, msg |-> replaceMsgs(statusCode),
                            completion |-> -1],
                       !.status = PopStatus(@, cartNumber)]
              ELSE st

RECURSIVE Phase2Loop(_, _)
Phase2Loop(st, ps) ==
    IF ps = <<>> THEN st ELSE Phase2Loop(Phase2Step(st, Head(ps)), Tail(ps))

\* Phase3Step that takes the last of the sorted carts
Phase3StepLast(st, plate) ==
    IF st.error # NoError \/ Contains(st.allocated, plate) THEN st
    ELSE IF st.sorted = <<>>
    THEN [st EXCEPT !.error =
             [name |-> "IndexError", at |-> "phase3", plate |-> plate]]
    ELSE LET cart == st.sorted[Len(st.sorted)]
             cartNumber == cart[1]
             statusCode == cart[3]
             statusLabel == cart[4]
         IN  [st EXCEPT
                 !.sorted = SubSeq(@, 1, Len(@) - 1),
                 !.carts[cartNumber] = plate,
                 !.allocated = Append(@, plate),
                 !.message[cartNumber] =
                     [plate |-> plate, msg |-> replaceMsgs(statusCode),
                      completion |-> IF statusLabel = "MaNGA_started"
                                     THEN cart[5] ELSE -1]]

\* lines 476-491: the remaining plates take the sorted carts in turn
Phase3Step(st, plate) ==
    IF st.error # NoError \/ Contains(st.allocated, plate) THEN st
    ELSE IF st.sorted = <<>>
    THEN [st EXCEPT !.error =
             [name |-> "IndexError", at |-> "phase3", plate |-> plate]]
    ELSE LET cart == Head(st.sorted)
             cartNumber == cart[1]
             statusCode == cart[3]
             statusLabel == cart[4]
         IN  [st EXCEPT
                 !.sorted = Tail(@),
                 !.carts[cartNumber] = plate,
                 !.allocated = Append(@, plate),
                 !.message[cartNumber] =
                     [plate |-> plate, msg |-> replaceMsgs(statusCode),
                      completion |-> IF statusLabel = "MaNGA_started"
                                     THEN cart[5] ELSE -1]]

RECURSIVE Phase3Loop(_, _)
Phase3Loop(st, ps) ==
    IF ps = <<>> THEN st ELSE Phase3Loop(Phase3Step(st, Head(ps)), Tail(ps))

\* DispositionStep that unplugs only above a completion of 1
DispositionStepAbove(st, cart) ==
    LET cartNumber == cart[1]
        plate == cart[2]
        statusLabel == cart[4]
        completion == cart[5]
    IN  IF completion > 10
        THEN [st EXCEPT !.message[cartNumber] =
                 [plate |-> plate, msg |-> "unplug", completion |-> -1]]
        ELSE IF statusLabel # "noMaNGAplate" /\ plate # None
        THEN [st EXCEPT
                 !.carts[cartNumber] = plate,
                 !.message[cartNumber] =
                     [plate |-> plate,
                      msg |-> IF isPlugged(plate) THEN "already plugged"
                              ELSE "unchanged",
                      completion |-> -1]]
        ELSE [st EXCEPT !.message[cartNumber] =
                 [plate |-> plate, msg |-> "not doing anything", completion |-> -1]]

\* lines 499-517: what happens to a cart that got no plate
DispositionStep(st, cart) ==
    LET cartNumber == cart[1]
        plate == cart[2]
        statusLabel == cart[4]
        completion == cart[5]
    IN  IF completion >= 10
        THEN [st EXCEPT !.message[cartNumber] =
                 [plate |-> plate, msg |-> "unplug", completion |-> -1]]
        ELSE IF statusLabel # "noMaNGAplate" /\ plate # None
        THEN [st EXCEPT
                 !.carts[cartNumber] = plate,
                 !.message[cartNumber] =
                     [plate |-> plate,
                      msg |-> IF isPlugged(plate) THEN "already plugged"
                              ELSE "unchanged",
                      completion |-> -1]]
        ELSE [st EXCEPT !.message[cartNumber] =
                 [plate |-> plate, msg |-> "not doing anything", completion |-> -1]]

RECURSIVE DispositionLoop(_, _)
DispositionLoop(st, cs) ==
    IF cs = <<>> THEN st
    ELSE DispositionLoop(DispositionStep(st, Head(cs)), Tail(cs))

(***************************************************************************)
(* Plugger.schedule, up to the call of allocateCarts.                      *)
(***************************************************************************)
\* _scheduleForced: the plates of force-plug priority, by plate_id
forcePlugPlates ==
    SelectSeq(platesAtAPO,
              LAMBDA plate : platedb[plate].priority >= forcePlugPriority)

scheduleForced(timelineScheduled) ==
    timelineScheduled
    \o SelectSeq(forcePlugPlates, LAMBDA plate : ~Contains(timelineScheduled, plate))

\* lines 208-210: list.remove inside the loop over the same list, so the
\* element that follows a removed one is not visited
RECURSIVE removeForceScheduled(_, _, _)
removeForceScheduled(list, i, forceScheduled) ==
    IF i > Len(list) THEN list
    ELSE IF Contains(forceScheduled, list[i])
    THEN removeForceScheduled(SubSeq(list, 1, i - 1) \o SubSeq(list, i + 1, Len(list)),
                              i + 1, forceScheduled)
    ELSE removeForceScheduled(list, i + 1, forceScheduled)

\* len(plate.getMockExposures()) for the plates of the timeline: the earlier
\* a plate is scheduled the more exposures it gets, or the fewer
mockExposures(timelineScheduled, decreasing) ==
    [plate \in MaNGAPlates |->
        IF ~Contains(timelineScheduled, plate) THEN 0
        ELSE LET i == CHOOSE i \in 1..Len(timelineScheduled) :
                          timelineScheduled[i] = plate
             IN  IF decreasing THEN Len(timelineScheduled) - i ELSE i - 1]

(***************************************************************************)
(* The actions.                                                            *)
(***************************************************************************)
inputVars == <<offlineCarts, activePluggings, platedb, startDate>>
allocVars == <<plates, cartStatus, allocatedPlates, sortedCarts,
               cartPlateMessage, nUnallocated>>
scheduleVars == <<platesToSchedule, isReplug, scheduled, nNewExposures,
                  hasNewExposures>>

\* addCartOrder(metric), then on to pc = next.  The loop over self.carts
\* meets the key 'cart_order' when it is there, whose value has no priority.
addCartOrder(metric, next) ==
    /\ orderCalls' = orderCalls + 1
    /\ IF cart_order.set
       THEN /\ pc' = "failed"
            /\ error' = [name |-> "AttributeError", at |-> "addCartOrder",
                          plate |-> None]
            /\ UNCHANGED cart_order
       ELSE /\ cart_order' = [set |-> TRUE,
                              order |-> cartOrder(metric, cartKeys, carts)]
            /\ pc' = next
            /\ UNCHANGED error

\* Plugger(startDate, endDate) with both dates
InitFromDates ==
    /\ pc = "new" /\ startDate
    /\ platesToSchedule' = selectPlates
    /\ isReplug' = taggedReplug
    /\ cartKeys' = onlineMangaCarts
    /\ carts' = [cart \in AllCarts |-> None]
    /\ pc' = "ready"
    /\ UNCHANGED <<inputVars, allocVars, error, warnings, scheduled,
                   nNewExposures, hasNewExposures, cart_order, orderCalls,
                   statuses>>

\* Plugger() without dates: the plugged MaNGA plates that are not complete
pluggedPlates ==
    SelectSeq(activePluggings, LAMBDA aP : isMaNGAPlate(aP.plate))

RECURSIVE cartsOfPlugged(_, _)
cartsOfPlugged(keys, aPs) ==
    IF aPs = <<>> THEN keys
    ELSE cartsOfPlugged(IF isComplete(Head(aPs).plate) THEN keys
                        ELSE SetKey(keys, getActiveCartNumber(Head(aPs).plate)),
                        Tail(aPs))

platesOfPlugged ==
    [cart \in AllCarts |->
        LET on == SelectSeq(pluggedPlates, LAMBDA aP :
                      /\ ~isComplete(aP.plate)
                      /\ getActiveCartNumber(aP.plate) = cart)
        IN  IF on = <<>> THEN None ELSE on[Len(on)].plate]

InitNoManga ==
    /\ pc = "new" /\ ~startDate
    /\ warnings' = Append(warnings, "no JD1, JD2 values provided")
    /\ cartKeys' = cartsOfPlugged(<<>>, pluggedPlates)
    /\ carts' = platesOfPlugged
    /\ orderCalls' = orderCalls + 1
    /\ cart_order' = [set |-> TRUE,
                      order |-> cartOrder("completion", cartKeys', carts')]
    /\ pc' = "output"
    /\ UNCHANGED <<inputVars, allocVars, scheduleVars, error, statuses>>

\* schedule(), lines 204-223; the timeline is not part of plugger.py: it
\* adds to its scheduled plates any plates of those to schedule, as many as
\* there are MaNGA carts at most
Schedule ==
    /\ pc = "ready"
    /\ LET forced == scheduleForced(<<>>)
           toSchedule == removeForceScheduled(platesToSchedule, 1, forced)
       IN  /\ platesToSchedule' = toSchedule
           /\ \E rest \in DistinctSeqs(Range(toSchedule) \ Range(forced), Len(mangaCarts)) :
                /\ Len(forced) >= Len(cartKeys) => rest = <<>>
                /\ scheduled' = forced \o rest
           /\ \E decreasing \in BOOLEAN :
                nNewExposures' = mockExposures(scheduled', decreasing)
           /\ hasNewExposures' = Range(scheduled')
    /\ pc' = "allocate"
    /\ UNCHANGED <<inputVars, allocVars, error, warnings, isReplug, cartKeys,
                   carts, cart_order, orderCalls, statuses>>

\* allocateCarts, lines 408-440
AllocateStart ==
    /\ pc = "allocate"
    /\ plates' = truncate(scheduled, Len(cartKeys))
    /\ warnings' = IF Len(scheduled) > Len(cartKeys)
                   THEN Append(warnings, "Using the first plates")
                   ELSE warnings
    /\ cartKeys' = addOfflinePks(cartKeys, activePluggings)
    /\ carts' = resetOfflinePks(carts, activePluggings)
    /\ allocatedPlates' = <<>>
    /\ IF \E i \in 1..Len(undecidedCarts(cartKeys', carts')) :
             HasSeveralActivePluggings(activePluggings,
                                       undecidedCarts(cartKeys', carts')[i])
       THEN /\ pc' = "failed"
            /\ error' = [name |-> "TotoroError", at |-> "getCartStatus",
                          plate |-> None]
            /\ UNCHANGED cartStatus
       ELSE /\ cartStatus' =
                 [i \in 1..Len(undecidedCarts(cartKeys', carts')) |->
                     getCartStatus(activePluggings,
                                   undecidedCarts(cartKeys', carts')[i])]
            /\ pc' = "phase1"
            /\ UNCHANGED error
    /\ UNCHANGED <<inputVars, scheduleVars, sortedCarts, cartPlateMessage,
                   nUnallocated, cart_order, orderCalls, statuses>>

\* the locals and self.carts after a loop, and where the run goes on
AfterLoop(st, next) ==
    /\ cartKeys' = st.cartKeys
    /\ carts' = st.carts
    /\ cartPlateMessage' = st.message
    /\ allocatedPlates' = st.allocated
    /\ cartStatus' = st.status
    /\ sortedCarts' = st.sorted
    /\ error' = st.error
    /\ pc' = IF st.error # NoError THEN "failed" ELSE next

Phase1 ==
    /\ pc = "phase1"
    /\ AfterLoop(Phase1Loop(Locals, plates), "phase2")
    /\ UNCHANGED <<inputVars, scheduleVars, plates, warnings, nUnallocated,
                   cart_order, orderCalls, statuses>>

Phase2 ==
    /\ pc = "phase2"
    /\ AfterLoop(Phase2Loop(Locals, plates), "phase3")
    /\ UNCHANGED <<inputVars, scheduleVars, plates, warnings, nUnallocated,
                   cart_order, orderCalls, statuses>>

\* lines 473-496
Phase3 ==
    /\ pc = "phase3"
    /\ LET st == Phase3Loop([Locals EXCEPT
                                !.sorted = prioritiseCarts(cartStatus, activePluggings)],
                            plates)
       IN  /\ AfterLoop(st, "disposition")
           /\ IF st.error = NoError /\ Len(plates) > Len(st.allocated)
              THEN /\ warnings' = Append(warnings, "plates have not been allocated")
                   /\ nUnallocated' = Len(plates) - Len(st.allocated)
              ELSE UNCHANGED <<warnings, nUnallocated>>
    /\ UNCHANGED <<inputVars, scheduleVars, plates, cart_order, orderCalls,
                   statuses>>

\* lines 499-523
Disposition ==
    /\ pc = "disposition"
    /\ AfterLoop(DispositionLoop(Locals, sortedCarts), "order")
    /\ UNCHANGED <<inputVars, scheduleVars, plates, warnings, nUnallocated,
                   cart_order, orderCalls, statuses>>

\* line 528, the end of allocateCarts
AddCartOrder ==
    /\ pc = "order"
    /\ addCartOrder("scheduled", "cleanup")
    /\ UNCHANGED <<inputVars, allocVars, scheduleVars, warnings, cartKeys,
                   carts, statuses>>

\* a caller that has run allocateCarts calls addCartOrder once more
AddCartOrderAgain ==
    /\ pc = "cleanup" /\ orderCalls = 1
    /\ addCartOrder("scheduled", "cleanup")
    /\ UNCHANGED <<inputVars, allocVars, scheduleVars, warnings, cartKeys,
                   carts, statuses>>

\* _cleanUp, line 226: the keys whose value is None go
CleanUp ==
    /\ pc = "cleanup"
    /\ cartKeys' = SelectSeq(cartKeys, LAMBDA key : carts[key] # None)
    /\ pc' = "output"
    /\ UNCHANGED <<inputVars, allocVars, scheduleVars, error, warnings, carts,
                   cart_order, orderCalls, statuses>>

\* getASOutput, lines 241-256
GetASOutput ==
    /\ pc = "output"
    /\ LET nonUsedCarts == SelectSeq(mangaCarts, LAMBDA cartNo :
                               ~Contains(cart_order.order, cartNo))
       IN  cart_order' = [cart_order EXCEPT
               !.order = Reverse(apogeeCarts) \o nonUsedCarts \o @]
    /\ pc' = "done"
    /\ UNCHANGED <<inputVars, allocVars, scheduleVars, error, warnings,
                   cartKeys, carts, orderCalls, statuses>>

Init ==
    /\ offlineCarts \in OfflineChoices
    /\ activePluggings \in Snapshots
    /\ platedb \in PlateDBs(activePluggings, NPlates + 1)
    /\ startDate \in BOOLEAN
    /\ pc = "new"
    /\ error = NoError
    /\ warnings = <<>>
    /\ platesToSchedule = <<>>
    /\ isReplug = {}
    /\ scheduled = <<>>
    /\ nNewExposures = [plate \in MaNGAPlates |-> 0]
    /\ hasNewExposures = {}
    /\ plates = <<>>
    /\ cartKeys = <<>>
    /\ carts = [cart \in AllCarts |-> None]
    /\ cart_order = NoOrder
    /\ cartStatus = <<>>
    /\ allocatedPlates = <<>>
    /\ sortedCarts = <<>>
    /\ cartPlateMessage = [cart \in AllCarts |-> NoMessage]
    /\ nUnallocated = 0
    /\ orderCalls = 0
    /\ statuses = NoStatuses

Next ==
    \/ InitFromDates
    \/ InitNoManga
    \/ Schedule
    \/ AllocateStart
    \/ Phase1
    \/ Phase2
    \/ Phase3
    \/ Disposition
    \/ AddCartOrder
    \/ AddCartOrderAgain
    \/ CleanUp
    \/ GetASOutput

Spec == Init /\ [][Next]_vars

(***************************************************************************)
(* prioritiseCarts on its own: any list of statuses of distinct carts, the  *)
(* cart number of a status being its place in the list.                    *)
(***************************************************************************)
StatusKinds ==
    {<<None, 0, "empty", 0>>,
     <<ForeignPlate, 1, "noMaNGAplate", 0>>,
     <<3, 2, "MaNGA_complete", 10>>,
     <<1, 3, "MaNGA_noStarted", 0>>,
     <<2, 4, "MaNGA_started", 2>>,
     <<2, 4, "MaNGA_started", 9>>,
     <<None, 10, "unknown", 0>>}

\* the lists of k statuses
StatusInputs(k) ==
    {[i \in 1..k |-> <<i>> \o kinds[i]] : kinds \in [1..k -> StatusKinds]}

Prioritise ==
    /\ pc = "prioritise"
    /\ statuses' = [input |-> statuses.input,
                    output |-> prioritiseCarts(statuses.input, activePluggings),
                    done |-> TRUE]
    /\ pc' = "done"
    /\ UNCHANGED <<inputVars, allocVars, scheduleVars, error, warnings,
                   cartKeys, carts, cart_order, orderCalls>>

InitPrio ==
    /\ offlineCarts = <<>>
    /\ activePluggings = <<>>
    /\ platedb = CHOOSE db \in PlateDBs(<<>>, NPlates + 1) : TRUE
    /\ startDate = FALSE
    /\ pc = "prioritise"
    /\ error = NoError
    /\ warnings = <<>>
    /\ platesToSchedule = <<>>
    /\ isReplug = {}
    /\ scheduled = <<>>
    /\ nNewExposures = [plate \in MaNGAPlates |-> 0]
    /\ hasNewExposures = {}
    /\ plates = <<>>
    /\ cartKeys = <<>>
    /\ carts = [cart \in AllCarts |-> None]
    /\ cart_order = NoOrder
    /\ cartStatus = <<>>
    /\ allocatedPlates = <<>>
    /\ sortedCarts = <<>>
    /\ cartPlateMessage = [cart \in AllCarts |-> NoMessage]
    /\ nUnallocated = 0
    /\ orderCalls = 0
    /\ \E k \in 0..MaxStatuses : \E input \in StatusInputs(k) :
           statuses = [input |-> input, output |-> <<>>, done |-> FALSE]

NextPrio == Prioritise

SpecPrio == InitPrio /\ [][NextPrio]_vars

(***************************************************************************)
(* Runs on a data base that is not consistent: two ActivePlugging rows of   *)
(* two plates are for the same cart.  The rows are ordered by pk; the pk of *)
(* a row is what lines 431-433 take for the number of a cart.               *)
(***************************************************************************)
SeveralSnapshots ==
    {q \in [1..2 -> ActivePluggingRows] :
        /\ q[1].pk < q[2].pk
        /\ q[1].cart = q[2].cart
        /\ q[1].plate # q[2].plate}

InitSeveral ==
    /\ offlineCarts \in OfflineChoices
    /\ activePluggings \in SeveralSnapshots
    /\ platedb \in PlateDBs(activePluggings, NPlates + 1)
    /\ startDate \in BOOLEAN
    /\ pc = "new"
    /\ error = NoError
    /\ warnings = <<>>
    /\ platesToSchedule = <<>>
    /\ isReplug = {}
    /\ scheduled = <<>>
    /\ nNewExposures = [plate \in MaNGAPlates |-> 0]
    /\ hasNewExposures = {}
    /\ plates = <<>>
    /\ cartKeys = <<>>
    /\ carts = [cart \in AllCarts |-> None]
    /\ cart_order = NoOrder
    /\ cartStatus = <<>>
    /\ allocatedPlates = <<>>
    /\ sortedCarts = <<>>
    /\ cartPlateMessage = [cart \in AllCarts |-> NoMessage]
    /\ nUnallocated = 0
    /\ orderCalls = 0
    /\ statuses = NoStatuses

SpecSeveral == InitSeveral /\ [][Next]_vars

(***************************************************************************)
(* The properties.                                                         *)
(***************************************************************************)
\* the number of carts available to allocateCarts: the MaNGA carts that are
\* not offline
nAvailable == Len(onlineMangaCarts)

\* allocateCarts has returned
Allocated == pc = "cleanup" /\ orderCalls = 1

C2_Original ==
    Allocated =>
        \A p \in Range(scheduled) :
            isPlugged(p) => carts[getActiveCartNumber(p)] = p

\* C2, amended: every plugged plate among the first N plates of the list
\* given to allocateCarts, N the number of available carts, is in its cart
\* when allocateCarts returns.
C2_Stability ==
    Allocated =>
        \A i \in 1..Len(scheduled) :
            (i <= nAvailable /\ isPlugged(scheduled[i]))
                => carts[getActiveCartNumber(scheduled[i])] = scheduled[i]

\* a plugged plate was kept while the list was truncated and another plate
\* was allocated
C2_Witness ==
    /\ Allocated
    /\ Len(scheduled) > nAvailable
    /\ Len(allocatedPlates) >= 2
    /\ \E i \in 1..nAvailable : isPlugged(scheduled[i])

\* C3 as claimed: an offline cart never holds a plate and is never among
\* the undecided carts, sorted or not.
C3_Original ==
    \A c \in Range(offlineCarts) :
        /\ carts[c] = None
        /\ ~HasStatus(cartStatus, c)
        /\ ~HasStatus(sortedCarts, c)

\* a replug, not plugged, whose last cart is offline or that has no plugging
FallsBack(p) ==
    /\ p \in isReplug
    /\ ~isPlugged(p)
    /\ \/ getCartForReplug(p) = None
       \/ Contains(offlineCarts, getCartForReplug(p))

\* C4 as claimed: such a plate is not put into that cart, phase 2 does not
\* fail for it, and it has a cart when allocateCarts returns.
C4_Original ==
    \A i \in 1..Len(plates) :
        FallsBack(plates[i]) =>
            /\ ~(error.at = "phase2" /\ error.plate = plates[i])
            /\ getCartForReplug(plates[i]) # None
                   => carts[getCartForReplug(plates[i])] # plates[i]
            /\ Allocated => \E c \in AllCarts : carts[c] = plates[i]

\* C5: when allocateCarts gets more plates than there are available carts N
\* and returns, it has warned of the truncation first, has allocated the
\* first N plates of the list and no other, each to a cart of its own, and
\* has not warned of plates that have not been allocated.
C5_Truncation ==
    (Allocated /\ Len(scheduled) > nAvailable) =>
        /\ warnings = <<"Using the first plates">>
        /\ Len(allocatedPlates) = nAvailable
        /\ Range(allocatedPlates) = Range(SubSeq(scheduled, 1, nAvailable))
        /\ Cardinality({c \in AllCarts :
               carts[c] # None /\ Contains(allocatedPlates, carts[c])}) = nAvailable
        /\ nUnallocated = 0

\* a list of three plates was cut to two, which were allocated
C5_Witness ==
    /\ Allocated
    /\ Len(scheduled) > nAvailable
    /\ nAvailable >= 2
    /\ Len(allocatedPlates) = nAvailable

\* C6 as claimed: a second call of addCartOrder on the same Plugger succeeds
\* and gives the same cart_order.
C6_Original ==
    orderCalls >= 2 =>
        /\ error = NoError
        /\ cart_order = [set |-> TRUE,
                         order |-> cartOrder("scheduled", cartKeys, carts)]

\* C7: a cart left unassigned by the three phases whose occupant was a
\* complete MaNGA plate is to be unplugged and holds no plate when
\* allocateCarts returns.
C7_CompletedUnplug ==
    pc \in {"order", "cleanup", "output", "done"} =>
        \A i \in 1..Len(sortedCarts) :
            sortedCarts[i][4] = "MaNGA_complete" =>
                /\ cartPlateMessage[sortedCarts[i][1]].msg = "unplug"
                /\ cartPlateMessage[sortedCarts[i][1]].plate = sortedCarts[i][2]
                /\ carts[sortedCarts[i][1]] = None

\* a cart with a complete plate was left unassigned while a plate was
\* allocated elsewhere
C7_Witness ==
    /\ Allocated
    /\ Len(allocatedPlates) >= 1
    /\ \E i \in 1..Len(sortedCarts) : sortedCarts[i][4] = "MaNGA_complete"

\* the place of a label in the order of prioritiseCarts
Rank(label) ==
    CASE label = "empty" -> 1
      [] label = "MaNGA_complete" -> 2
      [] label = "unknown" -> 3
      [] label = "noMaNGAplate" -> 4
      [] label = "MaNGA_noStarted" -> 5
      [] label = "MaNGA_started" -> 6

ExampleInput ==
    <<<<1, None, 0, "empty", 0>>,
      <<2, 2, 4, "MaNGA_started", 9>>,
      <<3, 3, 2, "MaNGA_complete", 10>>,
      <<4, 2, 4, "MaNGA_started", 2>>,
      <<5, None, 10, "unknown", 0>>>>

ExampleOutput ==
    <<<<1, None, 0, "empty", 0>>,
      <<3, 3, 2, "MaNGA_complete", 10>>,
      <<5, None, 10, "unknown", 0>>,
      <<4, 2, 4, "MaNGA_started", 2>>,
      <<2, 2, 4, "MaNGA_started", 9>>>>

\* C8: prioritiseCarts returns a permutation of its input, the labels in the
\* order empty, complete, unknown, non-MaNGA, not started, started; the
\* statuses of a label other than started keep their order in the input (the
\* cart number of a status is its place there) and the started statuses are
\* in ascending completion; the example of the specification comes out as
\* it says.
C8_Ordering ==
    statuses.done =>
        LET in == statuses.input
            out == statuses.output
        IN  /\ Len(out) = Len(in)
            /\ \A i \in 1..Len(in) : \E j \in 1..Len(out) : out[j] = in[i]
            /\ \A j, k \in 1..Len(out) :
                   j < k =>
                       /\ Rank(out[j][4]) <= Rank(out[k][4])
                       /\ (out[j][4] = out[k][4] /\ out[j][4] # "MaNGA_started")
                              => out[j][1] < out[k][1]
                       /\ (out[j][4] = "MaNGA_started" /\ out[k][4] = "MaNGA_started")
                              => out[j][5] <= out[k][5]
            /\ in = ExampleInput => out = ExampleOutput

\* prioritiseCarts has run on the example of the specification
C8_Witness == statuses.done /\ statuses.input = ExampleInput

\* the bucket of a cart of the order as C9 has it: 1 a complete plate
\* (completion >= 1), 2 an offline cart without a plate, 3 another plate,
\* 4 a plate of force-plug priority
ClaimedBucket(cart) ==
    IF carts[cart] = None THEN 2
    ELSE IF platedb[carts[cart]].priority = forcePlugPriority THEN 4
    ELSE IF getPlateCompletion(carts[cart]) >= 10 THEN 1
    ELSE 3

\* C9 as claimed: when allocateCarts returns, cart_order holds the carts
\* with a plate and the offline carts without one, once each, the complete
\* plates first, then the offline carts, then the other plates in ascending
\* number of new exposures, then the plates of force-plug priority.
C9_Original ==
    Allocated =>
        LET order == cart_order.order IN
        /\ Range(order) = {c \in AllCarts : carts[c] # None}
                              \cup Range(offlineCarts)
        /\ \A i, j \in 1..Len(order) :
               i < j =>
                   /\ order[i] # order[j]
                   /\ ClaimedBucket(order[i]) <= ClaimedBucket(order[j])
                   /\ (ClaimedBucket(order[i]) = 3 /\ ClaimedBucket(order[j]) = 3)
                          => nExposuresOf(carts[order[i]])
                                 <= nExposuresOf(carts[order[j]])

\* C10 as claimed: the cart_order that getASOutput returns holds every cart
\* of the two lists of carts exactly once.
C10_Original ==
    pc = "done" =>
        /\ Range(cart_order.order) = AllCarts
        /\ Len(cart_order.order) = Cardinality(AllCarts)

\* C11 as claimed: a run with dates whose snapshot has more than one active
\* plugging for a cart, whichever cart it is, an offline cart included, is
\* ended by an error: allocateCarts never gets to the end of its three
\* phases, so it returns no allocation.
C11_Original ==
    (/\ startDate
     /\ \E c \in AllCarts : HasSeveralActivePluggings(activePluggings, c))
        => pc \notin {"disposition", "order", "cleanup", "output", "done"}

\* C12 as claimed: of the plates that selectPlates returns, those tagged
\* isReplug are the plates that are not plugged and have a completion above
\* zero, incomplete sets counted, a plate of force-plug priority included.
C12_Original ==
    pc = "ready" =>
        \A p \in Range(platesToSchedule) :
            p \in isReplug <=> (getPlateCompletionInc(p) > 0 /\ ~isPlugged(p))

\* the plates that no phase has allocated yet, in the order of the list
unallocatedPlates ==
    SelectSeq(plates, LAMBDA plate : ~Contains(allocatedPlates, plate))

\* C13: phase 3 gives the k-th plate left unallocated by phases 1 and 2 to
\* the k-th of the carts left undecided by them, in the order of
\* prioritiseCarts; the carts it leaves are the rest of that order, and it
\* overrides no started MaNGA plate while it leaves a cart that is empty or
\* holds a complete, foreign or not started plate.
C13_GreedyOrder ==
    [][(pc = "phase3" /\ pc' = "disposition") =>
          LET order == prioritiseCarts(cartStatus, activePluggings)
              rest == unallocatedPlates
          IN  /\ Len(rest) <= Len(order)
              /\ \A k \in 1..Len(rest) : carts'[order[k][1]] = rest[k]
              /\ sortedCarts' = SubSeq(order, Len(rest) + 1, Len(order))
              /\ allocatedPlates' = allocatedPlates \o rest
              /\ \A k \in 1..Len(rest) : \A j \in (Len(rest) + 1)..Len(order) :
                     order[k][4] = "MaNGA_started" => order[j][4] = "MaNGA_started"
      ]_vars

\* phase 3 has given a cart to a plate and has left a cart with a started
\* plate and another cart
C13_Witness ==
    /\ pc = "disposition"
    /\ Len(prioritiseCarts(cartStatus, activePluggings)) > Len(sortedCarts)
    /\ Len(sortedCarts) >= 2
    /\ \E i \in 1..Len(sortedCarts) : sortedCarts[i][4] = "MaNGA_started"

\* C14: in a run of allocateCarts on a new Plugger there are at every
\* boundary of the phases at least as many undecided carts as plates of the
\* truncated list not yet allocated; so phase 3 never takes a cart from an
\* empty list, it leaves no plate unallocated and does not warn of any, and
\* when allocateCarts returns every plate of the truncated list has a cart.
C14_EnoughCarts ==
    /\ pc \in {"phase1", "phase2", "phase3"}
           => Len(cartStatus) >= Len(unallocatedPlates)
    /\ error.name # "IndexError"
    /\ pc \in {"disposition", "order", "cleanup"} => unallocatedPlates = <<>>
    /\ nUnallocated = 0
    /\ ~Contains(warnings, "plates have not been allocated")
    /\ Allocated => \A p \in Range(plates) : \E c \in AllCarts : carts[c] = p

\* the three phases have each allocated a plate and phase 3 has taken the
\* last undecided cart
C14_Witness ==
    /\ pc = "disposition"
    /\ sortedCarts = <<>>
    /\ cartStatus # <<>>
    /\ Len(allocatedPlates) = Len(mangaCarts)
    /\ \E p \in Range(plates) : isPlugged(p)
    /\ \E p \in Range(plates) : p \in isReplug

====
